---- MODULE Spec2Model ----
(***************************************************************************)
(* A model of code-status-scanner (crates/code-status-scanner/src/main.rs):*)
(* the File Selector (scan_directory's walk and filter), the Annotation    *)
(* Matcher (create_macro_regexes, scan_file) and the Report Aggregator     *)
(* (list_macros, generate_summary, search_macros), driven by main.         *)
(*                                                                         *)
(* Text is modelled by TLA+ strings, read character by character with      *)
(* SubSeq; Option<T> is a sequence of length 0 (None) or 1 (Some).         *)
(***************************************************************************)
EXTENDS Integers, Sequences, FiniteSets, TLC

VARIABLES
    pc,         \* position of the run: which function of main.rs acts next
    cli,        \* the parsed Cli struct
    fsys,       \* the file-system snapshot the run reads
    files,      \* scan_directory's `files` vector
    file_idx,   \* scan_directory's position in `for path in &files`
    instances,  \* the Vec<MacroInstance> being built / handed to the reports
    content,    \* the text handed to scan_file
    macros_str, \* the string handed to search_macros
    output,     \* what the run reported
    earlier     \* what an earlier call of scan_directory returned, if any

vars == <<pc, cli, fsys, files, file_idx, instances, content, macros_str, output,
          earlier>>

----------------------------------------------------------------------------
(* Bounds of the model                                                     *)

MaxLines == 2
MaxSearchInstances == 6
MaxFiles == 6
MaxDepthArg == 2

----------------------------------------------------------------------------
(* Option<T>                                                               *)

None == <<>>
Some(v) == <<v>>
IsSome(o) == Len(o) = 1
Unwrap(o) == o[1]

----------------------------------------------------------------------------
(* str helpers (std): chars, contains, ends_with, trim, split, lines       *)

Char(s, i) == SubSeq(s, i, i)

StartsWithAt(s, p, i) ==
    /\ i >= 1
    /\ i + Len(p) - 1 <= Len(s)
    /\ SubSeq(s, i, i + Len(p) - 1) = p

str_contains(s, p) == \E i \in 1..(Len(s) + 1) : StartsWithAt(s, p, i)

str_ends_with(s, p) ==
    /\ Len(p) <= Len(s)
    /\ SubSeq(s, Len(s) - Len(p) + 1, Len(s)) = p

Whitespace == {" ", "\t", "\r"}

RECURSIVE trim_start(_)
trim_start(s) ==
    IF Len(s) = 0 THEN s
    ELSE IF Char(s, 1) \in Whitespace THEN trim_start(SubSeq(s, 2, Len(s)))
    ELSE s

RECURSIVE trim_end(_)
trim_end(s) ==
    IF Len(s) = 0 THEN s
    ELSE IF Char(s, Len(s)) \in Whitespace THEN trim_end(SubSeq(s, 1, Len(s) - 1))
    ELSE s

trim(s) == trim_end(trim_start(s))

\* Position of the first occurrence of the one-character string c in s at or
\* after position from, or 0 when there is none.
FindChar(s, c, from) ==
    LET hits == {j \in from..Len(s) : Char(s, j) = c}
    IN  IF hits = {} THEN 0 ELSE CHOOSE j \in hits : \A k \in hits : j <= k

\* str::split(sep): the pieces between the separators; always at least one piece.
RECURSIVE split(_, _)
split(s, sep) ==
    LET i == FindChar(s, sep, 1)
    IN  IF i = 0 THEN <<s>>
        ELSE <<SubSeq(s, 1, i - 1)>> \o split(SubSeq(s, i + 1, Len(s)), sep)

\* str::lines(): split after every "\n"; a line's "\n" and a "\r" before it are
\* dropped; text after the last "\n" is a line only when it is not empty.
StripLineEnd(l) ==
    IF str_ends_with(l, "\r") THEN SubSeq(l, 1, Len(l) - 1) ELSE l

RECURSIVE lines(_)
lines(s) ==
    IF Len(s) = 0 THEN <<>>
    ELSE LET i == FindChar(s, "\n", 1)
         IN  IF i = 0 THEN <<s>>
             ELSE <<StripLineEnd(SubSeq(s, 1, i - 1))>>
                      \o lines(SubSeq(s, i + 1, Len(s)))

----------------------------------------------------------------------------
(* The marker vocabulary and the default exclusions                        *)

MACRO_NAMES ==
    << "untested", "includes_unwrap", "needs", "perf_critical",
       "security_sensitive", "unsafe_usage", "no_clippy", "complexity",
       "allocation_heavy", "panic_path",
       "needs_review", "temporary", "assumptions", "revisit_in",
       "dependency_sensitive", "platform_specific", "feature_gated",
       "api_stability", "deadlock_risk", "benchmark_candidate" >>

DEFAULT_EXCLUDE_DIRS ==
    << "target/", "node_modules/", ".git/", ".idea/", ".vscode/", "dist/", "build/" >>

----------------------------------------------------------------------------
(* The Annotation Matcher                                                  *)

\* The compiled form of format!("#\\[{}(.*?)\\]", name): the literal "#[" and the
\* name, then a lazy capture group of any characters, then the literal "]".
MacroRegex(name) ==
    [pattern |-> "#\\[" \o name \o "(.*?)\\]", open |-> "#[" \o name, close |-> "]"]

create_macro_regexes ==
    [k \in 1..Len(MACRO_NAMES) |-> <<MACRO_NAMES[k], MacroRegex(MACRO_NAMES[k])>>]

\* Regex::captures(line) for a MacroRegex: the leftmost match; its group 1 is the
\* shortest text between the opening literal and a "]". None when the line holds
\* no match. Group 1 takes part in every match (it may be empty).
captures(regex, line) ==
    LET n      == Len(regex.open)
        starts == {i \in 1..Len(line) :
                       /\ StartsWithAt(line, regex.open, i)
                       /\ FindChar(line, regex.close, i + n) # 0}
    IN  IF starts = {} THEN None
        ELSE LET i == CHOOSE a \in starts : \A b \in starts : a <= b
                 j == FindChar(line, regex.close, i + n)
             IN  Some([whole |-> SubSeq(line, i, j),
                       group1 |-> Some(SubSeq(line, i + n, j - 1))])

MacroInstance(path, line, macro_name, argument, context) ==
    [path |-> path, line |-> line, macro_name |-> macro_name,
     argument |-> argument, context |-> context]

\* caps.get(1).map(|m| m.as_str().trim().to_string())
ArgumentOf(caps) ==
    IF IsSome(caps.group1) THEN Some(trim(Unwrap(caps.group1))) ELSE None

\* Regex::captures_iter(line): every match, left to right, each search starting
\* behind the match before it (scan_file does not use it; it states what a scan
\* of every non-overlapping match would find).
RECURSIVE captures_iter(_, _)
captures_iter(regex, line) ==
    LET caps == captures(regex, line)
    IN  IF ~IsSome(caps) THEN <<>>
        ELSE LET whole == Unwrap(caps).whole
                 start == CHOOSE i \in 1..Len(line) :
                              /\ StartsWithAt(line, whole, i)
                              /\ \A j \in 1..(i - 1) : ~StartsWithAt(line, whole, j)
                 rest  == SubSeq(line, start + Len(whole), Len(line))
             IN  <<Unwrap(caps)>> \o captures_iter(regex, rest)

\* ScanLine emitting one instance for every match of a pattern in the line.
RECURSIVE ScanLine_EveryMatch(_, _, _, _, _)
ScanLine_EveryMatch(path, ls, line_no, macro_regexes, k) ==
    IF k > Len(macro_regexes) THEN <<>>
    ELSE LET macro_name == macro_regexes[k][1]
             found      == captures_iter(macro_regexes[k][2], ls[line_no])
             context    == IF line_no < Len(ls) THEN trim(ls[line_no + 1]) ELSE ""
         IN  [i \in 1..Len(found) |->
                  MacroInstance(path, line_no, macro_name, ArgumentOf(found[i]), context)]
                 \o ScanLine_EveryMatch(path, ls, line_no, macro_regexes, k + 1)

\* ScanLine reporting the index of the line, which starts at 0, as its number.
RECURSIVE ScanLine_ZeroBased(_, _, _, _, _)
ScanLine_ZeroBased(path, ls, line_no, macro_regexes, k) ==
    IF k > Len(macro_regexes) THEN <<>>
    ELSE LET macro_name == macro_regexes[k][1]
             caps       == captures(macro_regexes[k][2], ls[line_no])
             context    == IF line_no < Len(ls) THEN trim(ls[line_no + 1]) ELSE ""
             rest       == ScanLine_ZeroBased(path, ls, line_no, macro_regexes, k + 1)
         IN  IF IsSome(caps)
             THEN <<MacroInstance(path, line_no - 1, macro_name,
                                  ArgumentOf(Unwrap(caps)), context)>> \o rest
             ELSE rest

\* ScanLine taking the context from the following line as it stands, untrimmed.
RECURSIVE ScanLine_RawContext(_, _, _, _, _)
ScanLine_RawContext(path, ls, line_no, macro_regexes, k) ==
    IF k > Len(macro_regexes) THEN <<>>
    ELSE LET macro_name == macro_regexes[k][1]
             caps       == captures(macro_regexes[k][2], ls[line_no])
             context    == IF line_no < Len(ls) THEN ls[line_no + 1] ELSE ""
             rest       == ScanLine_RawContext(path, ls, line_no, macro_regexes, k + 1)
         IN  IF IsSome(caps)
             THEN <<MacroInstance(path, line_no, macro_name,
                                  ArgumentOf(Unwrap(caps)), context)>> \o rest
             ELSE rest

\* The body of scan_file's inner loop for line number line_no (1-based) and
\* the regexes from position k on.
RECURSIVE ScanLine(_, _, _, _, _)
ScanLine(path, ls, line_no, macro_regexes, k) ==
    IF k > Len(macro_regexes) THEN <<>>
    ELSE LET macro_name == macro_regexes[k][1]
             caps       == captures(macro_regexes[k][2], ls[line_no])
             context    == IF line_no < Len(ls) THEN trim(ls[line_no + 1]) ELSE ""
             rest       == ScanLine(path, ls, line_no, macro_regexes, k + 1)
         IN  IF IsSome(caps)
             THEN <<MacroInstance(path, line_no, macro_name,
                                  ArgumentOf(Unwrap(caps)), context)>> \o rest
             ELSE rest

RECURSIVE ScanLinesFrom(_, _, _, _)
ScanLinesFrom(path, ls, line_no, macro_regexes) ==
    IF line_no > Len(ls) THEN <<>>
    ELSE ScanLine(path, ls, line_no, macro_regexes, 1)
             \o ScanLinesFrom(path, ls, line_no + 1, macro_regexes)

scan_file(path, text, macro_regexes) ==
    ScanLinesFrom(path, lines(text), 1, macro_regexes)

----------------------------------------------------------------------------
(* The Report Aggregator                                                   *)

\* HashMap<K, i32> as a function from the keys present to their counts.
EmptyMap == <<>>

\* BumpEntry with the increment of an existing entry lost.
BumpEntry_InsertOnly(m, k) ==
    IF k \in DOMAIN m THEN m ELSE m @@ (k :> 1)

\* *map.entry(k).or_insert(0) += 1
BumpEntry(m, k) ==
    IF k \in DOMAIN m THEN [m EXCEPT ![k] = @ + 1] ELSE m @@ (k :> (0 + 1))

\* generate_summary's loop, for the instances up to position n.
RECURSIVE CountByMacro(_, _)
CountByMacro(insts, n) ==
    IF n = 0 THEN EmptyMap
    ELSE BumpEntry(CountByMacro(insts, n - 1), insts[n].macro_name)

RECURSIVE CountByFile(_, _)
CountByFile(insts, n) ==
    IF n = 0 THEN EmptyMap
    ELSE BumpEntry(CountByFile(insts, n - 1), insts[n].path)

\* The orders in which a HashMap with the key set S may hand out its entries:
\* std's HashMap promises none, so every arrangement of the keys.
RECURSIVE IterOrders(_)
IterOrders(S) ==
    IF S = {} THEN {<<>>}
    ELSE UNION {{<<x>> \o rest : rest \in IterOrders(S \ {x})} : x \in S}

\* slice::sort_by(|a, b| b.1.cmp(a.1)): a stable sort, larger counts first.
\* InsertByCount puts e behind every entry whose count is not smaller.
RECURSIVE InsertByCount(_, _)
InsertByCount(sorted, e) ==
    IF Len(sorted) = 0 THEN <<e>>
    ELSE IF sorted[Len(sorted)][2] >= e[2] THEN Append(sorted, e)
    ELSE Append(InsertByCount(SubSeq(sorted, 1, Len(sorted) - 1), e),
                sorted[Len(sorted)])

RECURSIVE sort_by_count_desc(_, _)
sort_by_count_desc(v, n) ==
    IF n = 0 THEN <<>>
    ELSE InsertByCount(sort_by_count_desc(v, n - 1), v[n])

TopFilesShown == 5

take(v, n) == SubSeq(v, 1, IF Len(v) < n THEN Len(v) ELSE n)

\* What generate_summary prints, when count_by_file hands out its entries in
\* the order iter_order.
generate_summary(insts, iter_order) ==
    LET count_by_macro == CountByMacro(insts, Len(insts))
        count_by_file  == CountByFile(insts, Len(insts))
        file_vec       == [i \in 1..Len(iter_order) |->
                               <<iter_order[i], count_by_file[iter_order[i]]>>]
        sorted         == sort_by_count_desc(file_vec, Len(file_vec))
    IN  [kind |-> "summary",
         total |-> Len(insts),
         count_by_macro |-> count_by_macro,
         count_by_file |-> count_by_file,
         top |-> take(sorted, TopFilesShown)]

\* SearchNames without the trim of each name.
SearchNames_NoTrim(str) == split(str, ",")

\* macros_str.split(',').map(|s| s.trim()).collect()
SearchNames(str) ==
    LET parts == split(str, ",") IN [i \in 1..Len(parts) |-> trim(parts[i])]

SeqContains(v, x) == \E i \in 1..Len(v) : v[i] = x

NameRequested(macro_names, inst) == SeqContains(macro_names, inst.macro_name)

search_macros(insts, str) ==
    LET macro_names == SearchNames(str)
        Wanted(i)   == NameRequested(macro_names, i)
        filtered    == SelectSeq(insts, Wanted)
    IN  IF Len(filtered) = 0
        THEN [kind |-> "search_no_match", macros |-> str]
        ELSE [kind |-> "search", found |-> filtered]

list_macros(insts) == [kind |-> "list", found |-> insts]

----------------------------------------------------------------------------
(* The File Selector                                                       *)

\* Regex::new(p) for a user pattern. The patterns of this model are plain text
\* (letters, digits, "/", "_"), which compiles to a search for that text, or hold
\* a group that is never closed, which does not compile (None).
RECURSIVE CountChar(_, _)
CountChar(s, c) ==
    IF Len(s) = 0 THEN 0
    ELSE (IF Char(s, 1) = c THEN 1 ELSE 0) + CountChar(SubSeq(s, 2, Len(s)), c)

Regex_new(p) ==
    IF CountChar(p, "(") # CountChar(p, ")") THEN None ELSE Some([literal |-> p])

\* Regex::is_match: an unanchored search.
is_match(regex, text) == str_contains(text, regex.literal)

\* A node of the file-system snapshot: its path as WalkDir reports it (the root
\* path joined with the names below it), its depth below the root, what is
\* there ("file": is_file() holds, also through a symbolic link; "dir";
\* "error": WalkDir yields Err for it), and text: what fs::read_to_string
\* returns for it (None: the read or the UTF-8 decoding fails).
Node(path, depth, kind, text, groups) ==
    [path |-> path, depth |-> depth, kind |-> kind, text |-> text, groups |-> groups]

FileA == "#[security_sensitive]\n#[needs_review]\nstruct User {\n"
FileB == "#[untested]\nfn a() {}\n#[untested]\nfn b() {}\n#[untested]\nfn c() {}\n"

FileMixed == "fn main() {}\n\t#[temporary] #[untested]  \n#[needs(\"refactor\")]\n"

\* What may lie under the directory ".", in the order WalkDir discovers it
\* (depth first, a directory before its contents). The groups of a node name
\* the parts of the tree it comes with.
Universe ==
    << Node("./src",           1, "dir",   None, {"A"}),
       Node("./src/a.rs",      2, "file",  Some(FileA), {"A"}),
       Node("./b.rs",          1, "file",  Some(FileB), {"B"}),
       Node("./target",        1, "dir",   None, {"T"}),
       Node("./target/d.rs",   2, "file",  Some("#[temporary]\nfn d() {}\n"), {"T"}),
       Node("./mytarget",      1, "dir",   None, {"M"}),
       Node("./mytarget/e.rs", 2, "file",  Some("#[perf_critical]\nfn hot() {}\n"), {"M"}),
       Node("./bad.rs",        1, "file",  None, {"U"}),
       Node("./notes.txt",     1, "file",  Some("#[untested]\n"), {"J"}),
       Node("./x.rs",          1, "dir",   None, {"J"}),
       Node("./dangling.rs",   1, "error", None, {"J"}),
       Node("./plain.rs",      1, "file",  Some("fn main() {}\n"), {"J"}),
       Node("./mixed.rs",      1, "file",  Some(FileMixed), {"M"}) >>

Groups == {"A", "B", "T", "M", "U", "J"}

RootDir == Node(".", 0, "dir", None, {})
RootFile == Node("solo.rs", 0, "file", Some("#[untested]\nfn solo() {}\n"), {})

\* The snapshots reachable from a root path: "." is a directory holding any
\* choice of the groups, "solo.rs" is a regular file, "nope" does not exist.
FileSystems(root) ==
    IF root = "."
    THEN {LET Present(n) == n.groups \cap G # {}
          IN  <<RootDir>> \o SelectSeq(Universe, Present) : G \in SUBSET Groups}
    ELSE IF root = "solo.rs" THEN {<<RootFile>>}
    ELSE {<<>>}

\* WithinMaxDepth counting the entries directly in the root as depth 0.
WithinMaxDepth_RootChildrenAtZero(depth, max_depth) ==
    IF IsSome(max_depth) THEN depth <= Unwrap(max_depth) + 1 ELSE TRUE

\* max_depth.unwrap_or(usize::MAX), as the test WalkDir makes of an entry's
\* depth: no depth of this model reaches usize::MAX.
WithinMaxDepth(depth, max_depth) ==
    IF IsSome(max_depth) THEN depth <= Unwrap(max_depth) ELSE TRUE

\* WalkDir::new(path).follow_links(true).max_depth(max_depth).into_iter():
\* a sequence of Result<DirEntry>. A root that cannot be read is one Err; an
\* entry deeper than max_depth is never produced.
WalkDir(fs, max_depth) ==
    IF Len(fs) = 0 THEN <<None>>
    ELSE LET Produced(n) == WithinMaxDepth(n.depth, max_depth)
             seen == SelectSeq(fs, Produced)
         IN  [i \in 1..Len(seen) |->
                  IF seen[i].kind = "error" THEN None ELSE Some(seen[i])]

\* FileFilter without the test of the exclude pattern.
FileFilter_NoExclude(entry, include_pattern, exclude_pattern, skip_default_dirs) ==
    LET path_str == entry.path
    IN  /\ entry.kind = "file"
        /\ str_ends_with(path_str, ".rs")
        /\ \/ ~skip_default_dirs
           \/ ~\E k \in 1..Len(DEFAULT_EXCLUDE_DIRS) :
                   str_contains(path_str, DEFAULT_EXCLUDE_DIRS[k])
        /\ IsSome(include_pattern) => is_match(Unwrap(include_pattern), path_str)

\* The closure handed to filter() in scan_directory.
FileFilter(entry, include_pattern, exclude_pattern, skip_default_dirs) ==
    LET path_str == entry.path
    IN  /\ entry.kind = "file"
        /\ str_ends_with(path_str, ".rs")
        /\ \/ ~skip_default_dirs
           \/ ~\E k \in 1..Len(DEFAULT_EXCLUDE_DIRS) :
                   str_contains(path_str, DEFAULT_EXCLUDE_DIRS[k])
        /\ IsSome(include_pattern) => is_match(Unwrap(include_pattern), path_str)
        /\ IsSome(exclude_pattern) => ~is_match(Unwrap(exclude_pattern), path_str)

\* scan_directory's `files`: filter_map(Result::ok), filter, map, collect.
CollectedFiles(fs, include_pattern, exclude_pattern, max_depth, skip_default_dirs) ==
    LET walker   == WalkDir(fs, max_depth)
        Kept(r)  == /\ IsSome(r)
                    /\ FileFilter(Unwrap(r), include_pattern, exclude_pattern,
                                  skip_default_dirs)
        kept     == SelectSeq(walker, Kept)
    IN  [i \in 1..Len(kept) |-> Unwrap(kept[i]).path]

\* fs::read_to_string(path)
read_to_string(fs, path) ==
    LET At(n) == n.path = path
        found == SelectSeq(fs, At)
    IN  IF Len(found) = 0 THEN None ELSE found[1].text

----------------------------------------------------------------------------
(* The run of main                                                         *)

Command(cmd, macros) == [cmd |-> cmd, macros |-> macros]

\* Cli::parse(): skip_default_dirs is a flag that sets true and defaults to
\* true, so it is true in every run.
CliArgs ==
    [path : {".", "solo.rs", "nope"},
     pattern : {None, Some("src"), Some("(")},
     exclude : {None, Some("b"), Some("(rs")},
     max_depth : {None} \cup {Some(d) : d \in 0..MaxDepthArg},
     skip_default_dirs : {TRUE},
     command : {None, Some(Command("List", "")), Some(Command("Summary", "")),
                Some(Command("Search", "untested,temporary"))}]

NoOutput == [kind |-> "none"]

Init ==
    /\ pc = "main"
    /\ cli \in CliArgs
    /\ fsys \in FileSystems(cli.path)
    /\ files = <<>>
    /\ file_idx = 1
    /\ instances = <<>>
    /\ content = ""
    /\ macros_str = ""
    /\ output = NoOutput
    /\ earlier = None

include_pattern == IF IsSome(cli.pattern) THEN Regex_new(Unwrap(cli.pattern)) ELSE None
exclude_pattern == IF IsSome(cli.exclude) THEN Regex_new(Unwrap(cli.exclude)) ELSE None

\* main, up to the call of scan_directory: expect() panics on a pattern that
\* does not compile, the include pattern first.
MainCompile ==
    /\ pc = "main"
    /\ IF IsSome(cli.pattern) /\ ~IsSome(include_pattern)
       THEN /\ pc' = "panicked"
            /\ output' = [kind |-> "panic", message |-> "Invalid include pattern"]
       ELSE IF IsSome(cli.exclude) /\ ~IsSome(exclude_pattern)
       THEN /\ pc' = "panicked"
            /\ output' = [kind |-> "panic", message |-> "Invalid exclude pattern"]
       ELSE /\ pc' = "scan_directory"
            /\ output' = output
    /\ UNCHANGED <<cli, fsys, files, file_idx, instances, content, macros_str, earlier>>

\* CollectFiles going on with the vector of instances it finds, not a new one.
CollectFiles_KeepInstances ==
    /\ pc = "scan_directory"
    /\ instances' = instances
    /\ files' = CollectedFiles(fsys, include_pattern, exclude_pattern,
                               cli.max_depth, cli.skip_default_dirs)
    /\ file_idx' = 1
    /\ pc' = "process_files"
    /\ UNCHANGED <<cli, fsys, content, macros_str, output, earlier>>

\* scan_directory, up to the loop over the files.
CollectFiles ==
    /\ pc = "scan_directory"
    /\ instances' = <<>>
    /\ files' = CollectedFiles(fsys, include_pattern, exclude_pattern,
                               cli.max_depth, cli.skip_default_dirs)
    /\ file_idx' = 1
    /\ pc' = "process_files"
    /\ UNCHANGED <<cli, fsys, content, macros_str, output, earlier>>

\* ProcessFile putting the instances of a file in front of those found so far.
ProcessFile_Prepend ==
    /\ pc = "process_files"
    /\ file_idx <= Len(files)
    /\ LET path == files[file_idx]
           read == read_to_string(fsys, path)
       IN  instances' = IF IsSome(read)
                        THEN scan_file(path, Unwrap(read), create_macro_regexes) \o instances
                        ELSE instances
    /\ file_idx' = file_idx + 1
    /\ UNCHANGED <<pc, cli, fsys, files, content, macros_str, output, earlier>>

\* ProcessFile leaving the loop at the first file that cannot be read.
ProcessFile_StopAtError ==
    /\ pc = "process_files"
    /\ file_idx <= Len(files)
    /\ LET path == files[file_idx]
           read == read_to_string(fsys, path)
       IN  IF IsSome(read)
           THEN /\ instances' = instances \o scan_file(path, Unwrap(read), create_macro_regexes)
                /\ file_idx' = file_idx + 1
           ELSE /\ instances' = instances
                /\ file_idx' = Len(files) + 1
    /\ UNCHANGED <<pc, cli, fsys, files, content, macros_str, output, earlier>>

\* One turn of `for path in &files`.
ProcessFile ==
    /\ pc = "process_files"
    /\ file_idx <= Len(files)
    /\ LET path == files[file_idx]
           read == read_to_string(fsys, path)
       IN  instances' = IF IsSome(read)
                        THEN instances \o scan_file(path, Unwrap(read), create_macro_regexes)
                        ELSE instances
    /\ file_idx' = file_idx + 1
    /\ UNCHANGED <<pc, cli, fsys, files, content, macros_str, output, earlier>>

\* scan_directory returns; main reports nothing found or picks the report.
MainDispatch ==
    /\ pc = "process_files"
    /\ file_idx > Len(files)
    /\ IF Len(instances) = 0
       THEN /\ pc' = "exited"
            /\ output' = [kind |-> "nothing_found"]
            /\ macros_str' = macros_str
       ELSE /\ output' = output
            /\ IF IsSome(cli.command) /\ Unwrap(cli.command).cmd = "Summary"
               THEN pc' = "generate_summary" /\ macros_str' = macros_str
               ELSE IF IsSome(cli.command) /\ Unwrap(cli.command).cmd = "Search"
               THEN pc' = "search_macros" /\ macros_str' = Unwrap(cli.command).macros
               ELSE pc' = "list_macros" /\ macros_str' = macros_str
    /\ UNCHANGED <<cli, fsys, files, file_idx, instances, content, earlier>>

ListMacros ==
    /\ pc = "list_macros"
    /\ output' = list_macros(instances)
    /\ pc' = "exited"
    /\ UNCHANGED <<cli, fsys, files, file_idx, instances, content, macros_str, earlier>>

GenerateSummary ==
    /\ pc = "generate_summary"
    /\ \E iter_order \in IterOrders(DOMAIN CountByFile(instances, Len(instances))) :
           output' = generate_summary(instances, iter_order)
    /\ pc' = "exited"
    /\ UNCHANGED <<cli, fsys, files, file_idx, instances, content, macros_str, earlier>>

SearchMacros ==
    /\ pc = "search_macros"
    /\ output' = search_macros(instances, macros_str)
    /\ pc' = "exited"
    /\ UNCHANGED <<cli, fsys, files, file_idx, instances, content, macros_str, earlier>>

\* scan_directory has returned and is called once more, with the same
\* arguments and the file system as it was.
ScanAgain ==
    /\ pc = "process_files"
    /\ file_idx > Len(files)
    /\ earlier = None
    /\ earlier' = Some(instances)
    /\ pc' = "scan_directory"
    /\ UNCHANGED <<cli, fsys, files, file_idx, instances, content, macros_str, output>>

Next ==
    \/ MainCompile
    \/ CollectFiles
    \/ ProcessFile
    \/ MainDispatch
    \/ ListMacros
    \/ GenerateSummary
    \/ SearchMacros

Spec == Init /\ [][Next]_vars

\* Two calls of scan_directory, one after the other.
NextTwoScans ==
    \/ MainCompile
    \/ CollectFiles
    \/ ProcessFile
    \/ ScanAgain

SpecTwoScans == Init /\ [][NextTwoScans]_vars

----------------------------------------------------------------------------
(* scan_file on its own: every text of up to MaxLines lines                *)

ScanLineTexts ==
    { "#[needs_review]",
      "#[needs(\"refactor\")]",
      "#[untested]",
      "#[untested(  )]",
      "#[untested] #[untested]",
      "#[needs(\"a\")] #[needs(\"b\")]",
      "\t#[temporary] #[untested]  ",
      "// #[perf_critical(\"hot\")] x]",
      "#[needs",
      "  fn run() {}  ",
      "" }

RECURSIVE TextsOfLines(_)
TextsOfLines(n) ==
    IF n = 0 THEN {""}
    ELSE {l \o "\n" \o t : l \in ScanLineTexts, t \in TextsOfLines(n - 1)}

\* Texts of 0..MaxLines lines, the last line with or without its "\n".
ScanTexts ==
    LET whole == UNION {TextsOfLines(n) : n \in 0..MaxLines}
    IN  whole \cup {SubSeq(t, 1, Len(t) - 1) : t \in whole \ {""}}

ScanPath == "src/lib.rs"

InitScanFile ==
    /\ pc = "scan_file"
    /\ content \in ScanTexts
    /\ cli = None
    /\ fsys = <<>>
    /\ files = <<>>
    /\ file_idx = 1
    /\ instances = <<>>
    /\ macros_str = ""
    /\ output = NoOutput
    /\ earlier = None

ScanFile ==
    /\ pc = "scan_file"
    /\ instances' = scan_file(ScanPath, content, create_macro_regexes)
    /\ pc' = "returned"
    /\ UNCHANGED <<cli, fsys, files, file_idx, content, macros_str, output, earlier>>

SpecScanFile == InitScanFile /\ [][ScanFile]_vars

----------------------------------------------------------------------------
(* generate_summary on its own: the instances of up to MaxFiles files      *)

\* The marker names one file contributes, in the order of its instances.
FileBlocks == {<<"untested">>, <<"needs", "untested">>}

SummaryPath(f) == "src/f" \o ToString(f) \o ".rs"

BlockInstances(f, block) ==
    [i \in 1..Len(block) |-> MacroInstance(SummaryPath(f), i, block[i], None, "")]

\* The instance sequences of files 1..n in discovery order, as scan_directory
\* builds them: each file's instances together.
RECURSIVE SummaryInputs(_)
SummaryInputs(n) ==
    IF n = 0 THEN {<<>>}
    ELSE {front \o BlockInstances(n, b) : front \in SummaryInputs(n - 1), b \in FileBlocks}

InitSummary ==
    /\ pc = "generate_summary"
    /\ instances \in UNION {SummaryInputs(n) : n \in 0..MaxFiles}
    /\ cli = None
    /\ fsys = <<>>
    /\ files = <<>>
    /\ file_idx = 1
    /\ content = ""
    /\ macros_str = ""
    /\ output = NoOutput
    /\ earlier = None

SpecSummary == InitSummary /\ [][GenerateSummary]_vars

----------------------------------------------------------------------------
(* search_macros on its own: up to MaxSearchInstances instances            *)

SearchMarkers == {"untested", "temporary", "perf_critical"}

SearchStrings ==
    { "untested,temporary", " untested ,\ttemporary ", "perf_critical",
      "temporary,,needs", "untestedtemporary", "" }

RECURSIVE MarkerSeqs(_)
MarkerSeqs(n) ==
    IF n = 0 THEN {<<>>}
    ELSE {Append(front, m) : front \in MarkerSeqs(n - 1), m \in SearchMarkers}

InstancesOf(names) ==
    [i \in 1..Len(names) |-> MacroInstance(ScanPath, i, names[i], None, "")]

InitSearch ==
    /\ pc = "search_macros"
    /\ instances \in {InstancesOf(names) :
                          names \in UNION {MarkerSeqs(n) : n \in 0..MaxSearchInstances}}
    /\ macros_str \in SearchStrings
    /\ cli = None
    /\ fsys = <<>>
    /\ files = <<>>
    /\ file_idx = 1
    /\ content = ""
    /\ output = NoOutput
    /\ earlier = None

SpecSearch == InitSearch /\ [][SearchMacros]_vars

----------------------------------------------------------------------------
(* Vocabulary of the properties                                            *)

IdentChars ==
    { "a", "b", "c", "d", "e", "f", "g", "h", "i", "j", "k", "l", "m", "n", "o",
      "p", "q", "r", "s", "t", "u", "v", "w", "x", "y", "z", "_",
      "0", "1", "2", "3", "4", "5", "6", "7", "8", "9" }

\* The line holds the annotation opening for exactly this marker name: "#[" and
\* the name, followed by a character that cannot continue an identifier.
HasAnnotationOf(line, name) ==
    \E i \in 1..Len(line) :
        /\ StartsWithAt(line, "#[" \o name, i)
        /\ i + Len(name) + 2 <= Len(line)
        /\ Char(line, i + Len(name) + 2) \notin IdentChars

InstancesAt(line_no, name) ==
    {k \in 1..Len(instances) :
         instances[k].line = line_no /\ instances[k].macro_name = name}

Finished == pc \in {"exited", "panicked"}

RECURSIVE SumOfCounts(_)
SumOfCounts(m) ==
    IF DOMAIN m = {} THEN 0
    ELSE LET k == CHOOSE x \in DOMAIN m : TRUE
         IN  m[k] + SumOfCounts([x \in DOMAIN m \ {k} |-> m[x]])

Occurrences(name) ==
    Cardinality({k \in 1..Len(instances) : instances[k].macro_name = name})

\* Position of the first instance of a file: its place in discovery order.
FirstSeen(path) ==
    CHOOSE k \in 1..Len(instances) :
        /\ instances[k].path = path
        /\ \A j \in 1..(k - 1) : instances[j].path # path

----------------------------------------------------------------------------
(* C1 - C3: the Annotation Matcher                                         *)

\* C1: a line that holds `#[needs_review]` and no `#[needs` followed by a
\* non-identifier character yields no instance whose macro_name is "needs".
C1_PrefixBoundary ==
    pc = "returned" =>
        \A n \in 1..Len(lines(content)) :
            LET l == lines(content)[n]
            IN  (str_contains(l, "#[needs_review]") /\ ~HasAnnotationOf(l, "needs"))
                    => InstancesAt(n, "needs") = {}

\* C2: a text whose only annotated line is `#[needs("refactor")]` yields exactly
\* one instance, with macro_name "needs" and argument `refactor`.
C2_ArgumentExtraction ==
    LET ls        == lines(content)
        annotated == {n \in 1..Len(ls) : str_contains(ls[n], "#[")}
    IN  (/\ pc = "returned"
         /\ Cardinality(annotated) = 1
         /\ \A n \in annotated : ls[n] = "#[needs(\"refactor\")]")
            => /\ Len(instances) = 1
               /\ instances[1].macro_name = "needs"
               /\ instances[1].argument = Some("refactor")

TwoFileTree ==
    LET InAB(n) == n.groups \cap {"A", "B"} # {}
    IN  <<RootDir>> \o SelectSeq(Universe, InAB)

\* C3: over the tree of file A (`#[security_sensitive]`, `#[needs_review]` on
\* consecutive lines) and file B (three `#[untested]`), the summary reports
\* count_by_macro = {security_sensitive:1, needs_review:1, untested:3},
\* count_by_file = {A:2, B:3}, top files [B, A] and a total of 5.
C3_EndToEndSummary ==
    (/\ pc = "exited"
     /\ fsys = TwoFileTree
     /\ files = <<"./src/a.rs", "./b.rs">>
     /\ output.kind = "summary")
        => /\ output.total = 5
           /\ output.count_by_macro =
                  ("security_sensitive" :> 1) @@ ("needs_review" :> 1) @@ ("untested" :> 3)
           /\ output.count_by_file = ("./src/a.rs" :> 2) @@ ("./b.rs" :> 3)
           /\ output.top = << <<"./b.rs", 3>>, <<"./src/a.rs", 2>> >>

----------------------------------------------------------------------------
(* C4 - C6: the Report Aggregator                                          *)

\* C4: the summary lists at most 5 files, in non-increasing order of count, and
\* files with equal counts in the order of their discovery.
C4_TopFilesRanking ==
    output.kind = "summary" =>
        /\ Len(output.top) <= 5
        /\ \A i, j \in 1..Len(output.top) :
               i < j =>
                   /\ output.top[i][2] >= output.top[j][2]
                   /\ output.top[i][2] = output.top[j][2]
                          => FirstSeen(output.top[i][1]) < FirstSeen(output.top[j][1])

\* C5: for a non-empty instance sequence the per-marker counts and the per-file
\* counts both add up to the reported total, which is the length of the
\* sequence, and the per-marker map holds exactly the markers that occur, each
\* with its number of occurrences.
C5_AggregationConsistency ==
    (output.kind = "summary" /\ Len(instances) > 0) =>
        /\ output.total = Len(instances)
        /\ SumOfCounts(output.count_by_macro) = output.total
        /\ SumOfCounts(output.count_by_file) = output.total
        /\ \A name \in DOMAIN output.count_by_macro :
               /\ output.count_by_macro[name] >= 1
               /\ output.count_by_macro[name] = Occurrences(name)
        /\ \A k \in 1..Len(instances) :
               instances[k].macro_name \in DOMAIN output.count_by_macro

C5_Witness ==
    /\ output.kind = "summary"
    /\ Len(instances) >= 4
    /\ Cardinality(DOMAIN output.count_by_macro) = 2
    /\ Cardinality(DOMAIN output.count_by_file) >= 3
    /\ \E f \in DOMAIN output.count_by_file : output.count_by_file[f] = 2

\* The names a comma-separated string asks for: each piece between commas (or
\* the ends of the string), trimmed.
RequestedNames(str) ==
    {trim(SubSeq(str, a, b)) :
         <<a, b>> \in {ab \in (1..(Len(str) + 1)) \X (0..Len(str)) :
                          /\ ab[1] <= ab[2] + 1
                          /\ ab[1] = 1 \/ Char(str, ab[1] - 1) = ","
                          /\ ab[2] = Len(str) \/ Char(str, ab[2] + 1) = ","
                          /\ \A c \in ab[1]..ab[2] : Char(str, c) # ","}}

\* C6: search_macros returns exactly the instances whose macro_name is one of
\* the trimmed names, in their original order; when there is none it reports
\* "no matches"; the names `untested,temporary` over 3 untested, 2 temporary and
\* 1 perf_critical return 5 instances, none of them perf_critical.
C6_SearchFilter ==
    pc = "exited" =>
        LET asked  == {k \in 1..Len(instances) :
                           instances[k].macro_name \in RequestedNames(macros_str)}
        IN  /\ asked = {} <=> output.kind = "search_no_match"
            /\ asked # {} =>
                   /\ output.kind = "search"
                   /\ Len(output.found) = Cardinality(asked)
                   /\ \A i \in 1..Len(output.found) :
                          /\ output.found[i].line \in asked
                          /\ output.found[i] = instances[output.found[i].line]
                   /\ \A i, j \in 1..Len(output.found) :
                          i < j => output.found[i].line < output.found[j].line
            /\ (/\ macros_str = "untested,temporary"
                /\ Occurrences("untested") = 3
                /\ Occurrences("temporary") = 2
                /\ Occurrences("perf_critical") = 1)
                   => /\ output.kind = "search"
                      /\ Len(output.found) = 5
                      /\ \A i \in 1..Len(output.found) :
                             output.found[i].macro_name # "perf_critical"

C6_Witness ==
    /\ pc = "exited"
    /\ macros_str = " untested ,\ttemporary "
    /\ Occurrences("untested") = 3
    /\ Occurrences("temporary") = 2
    /\ Occurrences("perf_critical") = 1
    /\ instances[1].macro_name = "perf_critical"
    /\ output.kind = "search"
    /\ Len(output.found) = 5

----------------------------------------------------------------------------
(* C7 - C9: the File Selector and the run                                  *)

IsRegularFile(path) ==
    \E k \in 1..Len(fsys) : fsys[k].path = path /\ fsys[k].kind = "file"

\* The names of the directories a path leads through.
DirSegments(path) ==
    LET parts == split(path, "/") IN {parts[i] : i \in 1..(Len(parts) - 1)}

DefaultExcludedNames ==
    {SubSeq(DEFAULT_EXCLUDE_DIRS[k], 1, Len(DEFAULT_EXCLUDE_DIRS[k]) - 1) :
         k \in 1..Len(DEFAULT_EXCLUDE_DIRS)}

\* C7: every selected path is a regular file whose path ends in ".rs", leads
\* through no default-excluded directory when skip_default_dirs is set, matches
\* the include pattern when there is one and does not match the exclude pattern
\* when there is one.
C7_SelectorSoundness ==
    \A i \in 1..Len(files) :
        /\ IsRegularFile(files[i])
        /\ str_ends_with(files[i], ".rs")
        /\ cli.skip_default_dirs => DirSegments(files[i]) \cap DefaultExcludedNames = {}
        /\ IsSome(cli.pattern) => str_contains(files[i], Unwrap(cli.pattern))
        /\ IsSome(cli.exclude) => ~str_contains(files[i], Unwrap(cli.exclude))

C7_Witness ==
    /\ pc = "process_files"
    /\ Len(fsys) = Len(Universe) + 1
    /\ cli.pattern = Some("src")
    /\ cli.exclude = Some("b")
    /\ cli.max_depth = None
    /\ files = <<"./src/a.rs">>

\* scan_directory has built `files`.
Collected ==
    pc \in {"process_files", "list_macros", "generate_summary", "search_macros", "exited"}

RootIsDir == Len(fsys) > 0 /\ fsys[1].kind = "dir"

\* The paths directly in the root (depth 1) that pass the selector's filters,
\* in discovery order.
DirectlyInRoot ==
    LET Passes(n) == /\ n.depth = 1
                     /\ FileFilter(n, include_pattern, exclude_pattern,
                                   cli.skip_default_dirs)
        kept == SelectSeq(fsys, Passes)
    IN  [i \in 1..Len(kept) |-> kept[i].path]

\* C8 as stated: with max_depth = 0 the files directly in the root directory
\* that pass the filters are selected, and no file further down.
C8_DepthZeroSelectsRootFiles ==
    (Collected /\ RootIsDir /\ cli.max_depth = Some(0)) => files = DirectlyInRoot

\* C8, amended: the root is depth 0 and the files directly in it are depth 1.
\* With max_depth = 0 no file inside a root directory is selected; with
\* max_depth = 1 exactly the files directly in the root that pass the filters
\* are selected, and no file further down.
C8_DepthBound ==
    (Collected /\ RootIsDir) =>
        /\ cli.max_depth = Some(0) => files = <<>>
        /\ cli.max_depth = Some(1) => files = DirectlyInRoot

C8_Witness ==
    /\ pc = "process_files"
    /\ RootIsDir
    /\ cli.max_depth = Some(0)
    /\ Len(DirectlyInRoot) >= 2
    /\ files = <<>>

ConfigError ==
    \/ IsSome(cli.pattern) /\ ~IsSome(Regex_new(Unwrap(cli.pattern)))
    \/ IsSome(cli.exclude) /\ ~IsSome(Regex_new(Unwrap(cli.exclude)))
    \/ Len(fsys) = 0

\* C9: a run ends in failure exactly when the include or exclude pattern is
\* malformed or the root path cannot be read, and then it has reported nothing
\* but the failure.
C9_ConfigErrorsFatal ==
    Finished =>
        /\ ConfigError <=> pc = "panicked"
        /\ ConfigError => output.kind = "panic"

----------------------------------------------------------------------------
(* C10: the argument of an instance                                        *)

\* C10: the argument of every instance scan_file emits is absent or a
\* non-empty string without surrounding whitespace.
C10_ArgumentNormalized ==
    pc = "returned" =>
        \A k \in 1..Len(instances) :
            \/ instances[k].argument = None
            \/ /\ Unwrap(instances[k].argument) # ""
               /\ trim(Unwrap(instances[k].argument)) = Unwrap(instances[k].argument)

----------------------------------------------------------------------------
(* C11: the context of an instance                                         *)

\* The pattern of this marker name finds a match in the line: the opening "#["
\* and the name, and a "]" somewhere behind them.
PatternMatches(name, line) ==
    \E i \in 1..Len(line) :
        /\ StartsWithAt(line, "#[" \o name, i)
        /\ \E j \in (i + Len(name) + 2)..Len(line) : Char(line, j) = "]"

VocabularyNames == {MACRO_NAMES[k] : k \in 1..Len(MACRO_NAMES)}

\* C11: the context of every instance is the trimmed text of the line after
\* its own, and the empty string when its line is the last of the file; a match
\* on the last line still yields its instance.
C11_ContextExtraction ==
    pc = "returned" =>
        LET ls == lines(content)
        IN  /\ \A k \in 1..Len(instances) :
                   instances[k].context =
                       IF instances[k].line < Len(ls)
                       THEN trim(ls[instances[k].line + 1]) ELSE ""
            /\ \A name \in VocabularyNames :
                   (Len(ls) > 0 /\ PatternMatches(name, ls[Len(ls)]))
                       => \E k \in InstancesAt(Len(ls), name) : instances[k].context = ""

C11_Witness ==
    /\ pc = "returned"
    /\ Len(lines(content)) = 2
    /\ \E k \in 1..Len(instances) :
           /\ instances[k].line = 1
           /\ instances[k].context = "#[temporary] #[untested]"
    /\ \E k \in 1..Len(instances) :
           /\ instances[k].line = 2
           /\ instances[k].context = ""

----------------------------------------------------------------------------
(* C12: the order of the instances                                         *)

FileIndex(path) == CHOOSE i \in 1..Len(files) : files[i] = path

VocabIndex(name) == CHOOSE k \in 1..Len(MACRO_NAMES) : MACRO_NAMES[k] = name

\* C12: the instances follow the discovery order of their files, so those of
\* one file lie together; within a file they are in ascending line order, and
\* on one line in the order of the vocabulary.
C12_InstanceOrdering ==
    /\ \A k \in 1..Len(instances) : \E i \in 1..Len(files) : files[i] = instances[k].path
    /\ \A i, j \in 1..Len(instances) :
           i < j =>
               /\ FileIndex(instances[i].path) <= FileIndex(instances[j].path)
               /\ instances[i].path = instances[j].path =>
                      /\ instances[i].line <= instances[j].line
                      /\ instances[i].line = instances[j].line =>
                             VocabIndex(instances[i].macro_name)
                                 < VocabIndex(instances[j].macro_name)

ScanDone == pc = "process_files" /\ file_idx > Len(files)

C12_Witness ==
    /\ ScanDone
    /\ Len(files) >= 3
    /\ instances[1].path = "./src/a.rs"
    /\ \E i \in 1..Len(instances) :
           /\ instances[i].path = "./mixed.rs"
           /\ instances[i].macro_name = "untested"
           /\ i + 2 <= Len(instances)
           /\ instances[i + 1].macro_name = "temporary"
           /\ instances[i + 1].line = instances[i].line
           /\ instances[i + 2].line > instances[i].line

----------------------------------------------------------------------------
(* C13: a scan repeated                                                    *)

----------------------------------------------------------------------------
(* C14: a file that cannot be read                                         *)

\* What the file system holds at a path: its text, None when it cannot be read
\* as text.
TextAt(path) ==
    LET k == CHOOSE i \in 1..Len(fsys) : fsys[i].path = path IN fsys[k].text

\* The instances of the paths, one file after the other.
RECURSIVE ScansOf(_)
ScansOf(paths) ==
    IF Len(paths) = 0 THEN <<>>
    ELSE scan_file(paths[1], Unwrap(TextAt(paths[1])), create_macro_regexes)
             \o ScansOf(Tail(paths))

ReadableFiles ==
    LET Readable(path) == IsSome(TextAt(path)) IN SelectSeq(files, Readable)

\* C14: a selected file that cannot be read yields no instance and does not
\* end the scan: the result is the instances of the other selected files, in
\* discovery order, as if the unreadable file had not been selected.
C14_ReadFailureSkipped ==
    ScanDone =>
        /\ instances = ScansOf(ReadableFiles)
        /\ \A k \in 1..Len(instances) : IsSome(TextAt(instances[k].path))

C14_Witness ==
    /\ ScanDone
    /\ \E i \in 2..(Len(files) - 1) :
           /\ files[i] = "./bad.rs"
           /\ TextAt(files[i]) = None
    /\ Len(instances) > 0
    /\ instances[1].path = "./src/a.rs"
    /\ instances[Len(instances)].path = "./mixed.rs"

----------------------------------------------------------------------------
(* C15: a marker repeated on one line                                      *)

\* The matches of the pattern of a marker name in a line, none overlapping.
MatchesIn(name, line) == captures_iter(MacroRegex(name), line)

\* C15 as stated: a marker whose annotation occurs k >= 2 times on a line
\* yields k instances on that line.
C15_InstancePerMatch ==
    pc = "returned" =>
        \A n \in 1..Len(lines(content)) : \A name \in VocabularyNames :
            Len(MatchesIn(name, lines(content)[n])) >= 2
                => Cardinality(InstancesAt(n, name)) = Len(MatchesIn(name, lines(content)[n]))

\* C15, amended: a marker whose annotation occurs k >= 2 times on a line
\* yields one instance on that line, with the argument of the leftmost match.
C15_OneInstancePerLine ==
    pc = "returned" =>
        \A n \in 1..Len(lines(content)) : \A name \in VocabularyNames :
            LET found == MatchesIn(name, lines(content)[n])
            IN  Len(found) >= 2
                    => /\ Cardinality(InstancesAt(n, name)) = 1
                       /\ \A k \in InstancesAt(n, name) :
                              instances[k].argument = Some(trim(Unwrap(found[1].group1)))

C15_Witness ==
    /\ pc = "returned"
    /\ lines(content) = <<"#[untested]", "#[needs(\"a\")] #[needs(\"b\")]">>
    /\ Len(MatchesIn("needs", lines(content)[2])) = 2
    /\ Len(instances) = 2
    /\ instances[2].macro_name = "needs"
    /\ instances[2].argument = Some("(\"a\")")

----------------------------------------------------------------------------
(* C16: every instance is well formed                                      *)

\* C16: the macro_name of every instance is a name of the vocabulary, its line
\* number lies between 1 and the number of lines of the file, and the pattern
\* of its macro_name matches the text of that line.
C16_InstanceWellFormed ==
    pc = "returned" =>
        \A k \in 1..Len(instances) :
            /\ instances[k].macro_name \in VocabularyNames
            /\ instances[k].line >= 1
            /\ instances[k].line <= Len(lines(content))
            /\ PatternMatches(instances[k].macro_name, lines(content)[instances[k].line])

C16_Witness ==
    /\ pc = "returned"
    /\ Len(lines(content)) = 2
    /\ \E k \in 1..Len(instances) :
           instances[k].line = 1 /\ instances[k].macro_name = "perf_critical"
    /\ \E k \in 1..Len(instances) :
           instances[k].line = 2 /\ instances[k].macro_name = "needs_review"

----------------------------------------------------------------------------
(* C17: the default exclusions                                             *)

Selected(path) == \E i \in 1..Len(files) : files[i] = path

\* C17: with skip_default_dirs set, a ".rs" file the walk reaches that leads
\* through no directory named exactly as a default exclusion, and that passes
\* the include and exclude patterns, is selected.
C17_ExclusionBySegment ==
    (Collected /\ cli.skip_default_dirs) =>
        \A k \in 1..Len(fsys) :
            (/\ fsys[k].kind = "file"
             /\ str_ends_with(fsys[k].path, ".rs")
             /\ cli.max_depth = None \/ fsys[k].depth <= Unwrap(cli.max_depth)
             /\ DirSegments(fsys[k].path) \cap DefaultExcludedNames = {}
             /\ IsSome(cli.pattern) => str_contains(fsys[k].path, Unwrap(cli.pattern))
             /\ IsSome(cli.exclude) => ~str_contains(fsys[k].path, Unwrap(cli.exclude)))
                => Selected(fsys[k].path)

====
